---- MODULE Spec2Model ----
(***************************************************************************)
(* Bluesky Automation API (src/main.py): the scraper's pagination and      *)
(* deduplication and the follower's bulk-follow protocol.                  *)
(*                                                                         *)
(* Python values are encoded as follows.  A str that the program inspects  *)
(* character by character (an error message) is a tuple of one-character   *)
(* strings; any other str is a TLA+ string.  None is the string None       *)
(* where the other values are strings, and an Optional[int] is <<>> for    *)
(* None and <<n>> for the integer n.  A dict is a record; a key read with  *)
(* dict.get and absent from the dict holds None.                           *)
(***************************************************************************)
EXTENDS Integers, Sequences, FiniteSets, TLC

VARIABLES
    \* ---- follow endpoint / BlueskyFollower ----
    request,              \* FollowRequest: accounts, max_follows
    fpc,                  \* position of the follow handler
    accounts_to_process,  \* follow_bulk local
    i,                    \* follow_bulk loop index (1-based, next account)
    results,              \* follow_bulk local
    successful,           \* follow_bulk local
    failed,               \* follow_bulk local
    already_following,    \* follow_bulk local
    rate_limited,         \* follow_bulk local
    trace,                \* remote calls and sleeps of the follow handler, in order
    response,             \* what the follow handler returned or raised
    \* ---- BlueskyScraper.deduplicate ----
    seen_dids,            \* self.seen_dids of the scraper instance in use
    dpc,                  \* which deduplicate calls were made
    d_accounts,           \* the list X given to the first call
    d_seen_arg,           \* the seen_dids argument S of the first call
    d_out1,               \* what the first call returned
    d_out2,               \* what the second call returned
    \* ---- BlueskyScraper.scrape_keyword ----
    keyword,              \* the argument
    max_pages,            \* self.max_pages
    spc,                  \* position of scrape_keyword
    all_accounts,         \* scrape_keyword local
    cursor,               \* scrape_keyword local
    page,                 \* scrape_keyword local
    strace,               \* search calls with their outcomes, and sleeps, in order
    scraped,              \* what scrape_keyword returned
    \* ---- scrape endpoint / BlueskyScraper.scrape_multiple_keywords ----
    srequest,             \* ScrapeRequest: keywords, max_pages, seen_dids
    keywords,             \* the argument of scrape_multiple_keywords
    ki,                   \* its loop index i (1-based, next keyword)
    mpc,                  \* position of the scrape handler
    m_accounts,           \* all_accounts of scrape_multiple_keywords
    per_kw,               \* what each scrape_keyword call of the run returned
    sresponse,            \* what the scrape handler returned
    \* ---- one scraper instance over several calls ----
    ncalls,               \* calls made on the instance so far
    d_returned,           \* identifiers returned by its deduplicate calls, in order
    d_supplied            \* identifiers given to it in seen_dids arguments

fvars == <<request, fpc, accounts_to_process, i, results, successful, failed,
           already_following, rate_limited, trace, response>>

dvars == <<seen_dids, dpc, d_accounts, d_seen_arg, d_out1, d_out2>>

svars == <<keyword, max_pages, spc, all_accounts, cursor, page, strace, scraped>>

mvars == <<srequest, keywords, ki, mpc, m_accounts, per_kw, sresponse>>

ivars == <<ncalls, d_returned, d_supplied>>

vars == <<fvars, dvars, svars, mvars, ivars>>

-----------------------------------------------------------------------------
(* Bounds of the model *)

MaxAccounts == 3
MaxFollowsArg == 3
MaxDedupLen == 3
MaxSeenArg == 2
MaxActors == 2
MaxPagesArg == 3
MaxKeywords == 2

-----------------------------------------------------------------------------
(* Python helpers *)

None == "None"

Min(a, b) == IF a < b THEN a ELSE b
Max(a, b) == IF a > b THEN a ELSE b

\* truth value of a str-or-None
Truthy(v) == v # None /\ v # ""

\* a or b, on str-or-None values
Or(a, b) == IF Truthy(a) THEN a ELSE b

\* seq[:n]
SliceTo(seq, n) ==
    IF n >= 0 THEN SubSeq(seq, 1, Min(n, Len(seq)))
    ELSE SubSeq(seq, 1, Max(0, Len(seq) + n))

Uppers ==
    <<"A","B","C","D","E","F","G","H","I","J","K","L","M",
      "N","O","P","Q","R","S","T","U","V","W","X","Y","Z">>
Lowers ==
    <<"a","b","c","d","e","f","g","h","i","j","k","l","m",
      "n","o","p","q","r","s","t","u","v","w","x","y","z">>

LowerChar(c) ==
    IF \E k \in DOMAIN Uppers : Uppers[k] = c
    THEN Lowers[CHOOSE k \in DOMAIN Uppers : Uppers[k] = c]
    ELSE c

\* str.lower()
Lower(s) == [k \in DOMAIN s |-> LowerChar(s[k])]

\* sub in s
Contains(s, sub) ==
    \E k \in 0..(Len(s) - Len(sub)) : SubSeq(s, k + 1, k + Len(sub)) = sub

STR_already_following ==
    <<"a","l","r","e","a","d","y"," ","f","o","l","l","o","w","i","n","g">>
STR_rate_limit ==
    <<"r","a","t","e"," ","l","i","m","i","t">>
STR_Already_following ==
    <<"A","l","r","e","a","d","y"," ","f","o","l","l","o","w","i","n","g">>
STR_Rate_limited ==
    <<"R","a","t","e"," ","l","i","m","i","t","e","d">>
STR_No_DID_provided ==
    <<"N","o"," ","D","I","D"," ","p","r","o","v","i","d","e","d">>
STR_Unknown_error ==
    <<"U","n","k","n","o","w","n"," ","e","r","r","o","r">>

\* datetime.now().isoformat()
Now == "now"

-----------------------------------------------------------------------------
(* The remote service, as the follower sees it *)

\* "User ALREADY FOLLOWING"
MsgAlready ==
    <<"U","s","e","r"," ","A","L","R","E","A","D","Y"," ","F","O","L","L","O","W","I","N","G">>
\* "Rate Limit Exceeded"
MsgRate ==
    <<"R","a","t","e"," ","L","i","m","i","t"," ","E","x","c","e","e","d","e","d">>
\* "rate limit; already following"
MsgBoth ==
    <<"r","a","t","e"," ","l","i","m","i","t",";"," ","a","l","r","e","a","d","y"," ","f","o","l","l","o","w","i","n","g">>
\* "RateLimit timeout"
MsgNear ==
    <<"R","a","t","e","L","i","m","i","t"," ","t","i","m","e","o","u","t">>
\* ""
MsgEmpty == <<>>

ErrorMessages == {MsgAlready, MsgRate, MsgBoth, MsgNear, MsgEmpty}

\* what client.follow(did) does: returns an object (with or without a uri
\* attribute) or raises an exception whose str() is msg
FollowOutcomes ==
    {[raises |-> FALSE, value |-> [uri |-> "at://follow"]],
     [raises |-> FALSE, value |-> [cid |-> "cid"]]}
    \cup {[raises |-> TRUE, msg |-> m] : m \in ErrorMessages}

\* what client.login(handle, app_password) does
LoginOutcomes ==
    {[raises |-> FALSE], [raises |-> TRUE, msg |-> "Invalid identifier or password"]}

\* account records a caller may send; each key read by follow_bulk is given
AccountPool ==
    {[did |-> "d1", DID |-> None, handle |-> "h1", Handle |-> None],
     [did |-> "",   DID |-> "d2", handle |-> None, Handle |-> "H2"],
     [did |-> None, DID |-> None, handle |-> "h3", Handle |-> None]}

SeqsUpTo(S, n) == UNION {[1..k -> S] : k \in 0..n}

-----------------------------------------------------------------------------
(* BlueskyFollower *)

\* login with the exception swallowed instead of re-raised
login_Swallow(outcome) == [raised |-> FALSE]

\* login: the exception of client.login is logged and re-raised
login(outcome) ==
    IF outcome.raises THEN [raised |-> TRUE, exc |-> outcome.msg]
    ELSE [raised |-> FALSE]

\* follow_user testing 'rate limit' before 'already following'
follow_user_RateFirst(did, handle, outcome) ==
    IF ~outcome.raises
    THEN [raised |-> FALSE,
          value |-> [did |-> did, handle |-> handle, success |-> TRUE,
                     uri |-> IF "uri" \in DOMAIN outcome.value
                             THEN outcome.value.uri ELSE None,
                     timestamp |-> Now]]
    ELSE LET error_msg == outcome.msg IN
         IF Contains(Lower(error_msg), STR_rate_limit)
         THEN [raised |-> FALSE,
               value |-> [did |-> did, handle |-> handle, success |-> FALSE,
                          error |-> STR_Rate_limited, timestamp |-> Now]]
         ELSE IF Contains(Lower(error_msg), STR_already_following)
         THEN [raised |-> FALSE,
               value |-> [did |-> did, handle |-> handle, success |-> FALSE,
                          error |-> STR_Already_following, timestamp |-> Now]]
         ELSE [raised |-> FALSE,
               value |-> [did |-> did, handle |-> handle, success |-> FALSE,
                          error |-> error_msg, timestamp |-> Now]]

\* follow_user(did, handle): one follow call, its outcome turned into a dict
follow_user(did, handle, outcome) ==
    IF ~outcome.raises
    THEN [raised |-> FALSE,
          value |-> [did |-> did, handle |-> handle, success |-> TRUE,
                     uri |-> IF "uri" \in DOMAIN outcome.value
                             THEN outcome.value.uri ELSE None,
                     timestamp |-> Now]]
    ELSE LET error_msg == outcome.msg IN
         IF Contains(Lower(error_msg), STR_already_following)
         THEN [raised |-> FALSE,
               value |-> [did |-> did, handle |-> handle, success |-> FALSE,
                          error |-> STR_Already_following, timestamp |-> Now]]
         ELSE IF Contains(Lower(error_msg), STR_rate_limit)
         THEN [raised |-> FALSE,
               value |-> [did |-> did, handle |-> handle, success |-> FALSE,
                          error |-> STR_Rate_limited, timestamp |-> Now]]
         ELSE [raised |-> FALSE,
               value |-> [did |-> did, handle |-> handle, success |-> FALSE,
                          error |-> error_msg, timestamp |-> Now]]

\* accounts[:max_follows] if max_follows else accounts
AccountsToProcess(accounts, max_follows) ==
    IF max_follows # <<>> /\ max_follows[1] # 0
    THEN SliceTo(accounts, max_follows[1])
    ELSE accounts

\* account.get('did') or account.get('DID')
ExtractDid(account) == Or(account.did, account.DID)

\* account.get('handle') or account.get('Handle')
ExtractHandle(account) == Or(account.handle, account.Handle)

\* the locals of follow_bulk that the loop body updates
Locals ==
    [results |-> results, successful |-> successful, failed |-> failed,
     already_following |-> already_following, rate_limited |-> rate_limited]

\* the skip branch without "failed += 1"
SkipStep_NoCount(loc, handle) ==
    [loc EXCEPT
       !.results = Append(@, [did |-> None, handle |-> handle,
                              success |-> FALSE, error |-> STR_No_DID_provided])]
    @@ [broke |-> FALSE, sleeps |-> FALSE]

\* the skip branch with "break" in place of "continue"
SkipStep_Break(loc, handle) ==
    [loc EXCEPT
       !.results = Append(@, [did |-> None, handle |-> handle,
                              success |-> FALSE, error |-> STR_No_DID_provided]),
       !.failed = @ + 1]
    @@ [broke |-> TRUE, sleeps |-> FALSE]

\* loop body, branch "if not did": record the skip, count it, continue
SkipStep(loc, handle) ==
    [loc EXCEPT
       !.results = Append(@, [did |-> None, handle |-> handle,
                              success |-> FALSE, error |-> STR_No_DID_provided]),
       !.failed = @ + 1]
    @@ [broke |-> FALSE, sleeps |-> FALSE]

\* result.get('error', 'Unknown error')
GetError(result) ==
    IF "error" \in DOMAIN result THEN result.error ELSE STR_Unknown_error

\* the loop body without the "break" of the rate-limited branch
AttemptStep_NoBreak(loc, result, n, total) ==
    LET appended == [loc EXCEPT !.results = Append(@, result)] IN
    IF result.success
    THEN [appended EXCEPT !.successful = @ + 1]
         @@ [broke |-> FALSE, sleeps |-> n < total]
    ELSE LET error == GetError(result) IN
         IF Contains(error, STR_Already_following)
         THEN [appended EXCEPT !.already_following = @ + 1]
              @@ [broke |-> FALSE, sleeps |-> FALSE]
         ELSE IF Contains(error, STR_Rate_limited)
         THEN [appended EXCEPT !.rate_limited = @ + 1]
              @@ [broke |-> FALSE, sleeps |-> FALSE]
         ELSE [appended EXCEPT !.failed = @ + 1]
              @@ [broke |-> FALSE, sleeps |-> FALSE]

\* the loop body with a "break" in the generic-failure branch too
AttemptStep_FailBreaks(loc, result, n, total) ==
    LET appended == [loc EXCEPT !.results = Append(@, result)] IN
    IF result.success
    THEN [appended EXCEPT !.successful = @ + 1]
         @@ [broke |-> FALSE, sleeps |-> n < total]
    ELSE LET error == GetError(result) IN
         IF Contains(error, STR_Already_following)
         THEN [appended EXCEPT !.already_following = @ + 1]
              @@ [broke |-> FALSE, sleeps |-> FALSE]
         ELSE IF Contains(error, STR_Rate_limited)
         THEN [appended EXCEPT !.rate_limited = @ + 1]
              @@ [broke |-> TRUE, sleeps |-> FALSE]
         ELSE [appended EXCEPT !.failed = @ + 1]
              @@ [broke |-> TRUE, sleeps |-> FALSE]

\* the loop body sleeping after every attempt that is not the last
AttemptStep_AlwaysSleeps(loc, result, n, total) ==
    LET appended == [loc EXCEPT !.results = Append(@, result)] IN
    IF result.success
    THEN [appended EXCEPT !.successful = @ + 1]
         @@ [broke |-> FALSE, sleeps |-> n < total]
    ELSE LET error == GetError(result) IN
         IF Contains(error, STR_Already_following)
         THEN [appended EXCEPT !.already_following = @ + 1]
              @@ [broke |-> FALSE, sleeps |-> n < total]
         ELSE IF Contains(error, STR_Rate_limited)
         THEN [appended EXCEPT !.rate_limited = @ + 1]
              @@ [broke |-> TRUE, sleeps |-> FALSE]
         ELSE [appended EXCEPT !.failed = @ + 1]
              @@ [broke |-> FALSE, sleeps |-> n < total]

\* loop body after follow_user returned result for the account at position n
AttemptStep(loc, result, n, total) ==
    LET appended == [loc EXCEPT !.results = Append(@, result)] IN
    IF result.success
    THEN [appended EXCEPT !.successful = @ + 1]
         @@ [broke |-> FALSE, sleeps |-> n < total]
    ELSE LET error == GetError(result) IN
         IF Contains(error, STR_Already_following)
         THEN [appended EXCEPT !.already_following = @ + 1]
              @@ [broke |-> FALSE, sleeps |-> FALSE]
         ELSE IF Contains(error, STR_Rate_limited)
         THEN [appended EXCEPT !.rate_limited = @ + 1]
              @@ [broke |-> TRUE, sleeps |-> FALSE]
         ELSE [appended EXCEPT !.failed = @ + 1]
              @@ [broke |-> FALSE, sleeps |-> FALSE]

\* the dict follow_bulk returns
BulkReturn(loc) ==
    [kind |-> "ok",
     success |-> TRUE,
     results |-> loc.results,
     summary |-> [total_attempted |-> Len(loc.results),
                  successful |-> loc.successful,
                  already_following |-> loc.already_following,
                  failed |-> loc.failed,
                  rate_limited |-> loc.rate_limited,
                  rate_limited_stopped |-> loc.rate_limited > 0]]

-----------------------------------------------------------------------------
(* The follow endpoint, step by step *)

FollowerStart ==
    /\ request \in [accounts : SeqsUpTo(AccountPool, MaxAccounts),
                    max_follows : {<<>>} \cup {<<n>> : n \in (-1)..MaxFollowsArg}]
    /\ fpc = "start"
    /\ accounts_to_process = <<>>
    /\ i = 1
    /\ results = <<>>
    /\ successful = 0
    /\ failed = 0
    /\ already_following = 0
    /\ rate_limited = 0
    /\ trace = <<>>
    /\ response = [kind |-> "none"]

\* no follow request is being served
FollowerIdle ==
    /\ request = [accounts |-> <<>>, max_follows |-> <<>>]
    /\ fpc = "idle"
    /\ accounts_to_process = <<>>
    /\ i = 1
    /\ results = <<>>
    /\ successful = 0
    /\ failed = 0
    /\ already_following = 0
    /\ rate_limited = 0
    /\ trace = <<>>
    /\ response = [kind |-> "none"]

\* follow(): BlueskyFollower(...) runs login; an exception leaves the handler
\* as HTTPException(500)
FollowerConstruct ==
    /\ fpc = "start"
    /\ \E outcome \in LoginOutcomes :
         LET r == login(outcome) IN
         /\ trace' = Append(trace, [op |-> "login", outcome |-> outcome])
         /\ IF r.raised
            THEN /\ fpc' = "returned"
                 /\ response' = [kind |-> "HTTPException", status_code |-> 500,
                                 detail |-> r.exc]
            ELSE /\ fpc' = "bulk"
                 /\ UNCHANGED response
    /\ UNCHANGED <<request, accounts_to_process, i, results, successful, failed,
                   already_following, rate_limited>>

\* follow_bulk up to the loop
FollowBulkBegin ==
    /\ fpc = "bulk"
    /\ results' = <<>>
    /\ successful' = 0
    /\ failed' = 0
    /\ already_following' = 0
    /\ rate_limited' = 0
    /\ accounts_to_process' = AccountsToProcess(request.accounts, request.max_follows)
    /\ i' = 1
    /\ fpc' = "loop"
    /\ UNCHANGED <<request, trace, response>>

Assign(new) ==
    /\ results' = new.results
    /\ successful' = new.successful
    /\ failed' = new.failed
    /\ already_following' = new.already_following
    /\ rate_limited' = new.rate_limited
    /\ fpc' = IF new.broke THEN "summary" ELSE "loop"

\* one iteration of the loop of follow_bulk
FollowBulkStep ==
    /\ fpc = "loop"
    /\ i <= Len(accounts_to_process)
    /\ LET account == accounts_to_process[i]
           total == Len(accounts_to_process)
           did == ExtractDid(account)
           handle == ExtractHandle(account)
       IN IF ~Truthy(did)
          THEN /\ Assign(SkipStep(Locals, handle))
               /\ UNCHANGED <<trace, response>>
          ELSE \E outcome \in FollowOutcomes :
                 LET r == follow_user(did, handle, outcome)
                     new == AttemptStep(Locals, r.value, i, total)
                     call == [op |-> "follow", did |-> did, pos |-> i,
                              outcome |-> outcome]
                 IN IF r.raised
                    THEN /\ fpc' = "returned"
                         /\ response' = [kind |-> "HTTPException",
                                         status_code |-> 500, detail |-> "raised"]
                         /\ trace' = Append(trace, call)
                         /\ UNCHANGED <<results, successful, failed,
                                        already_following, rate_limited>>
                    ELSE /\ Assign(new)
                         /\ trace' = IF new.sleeps
                                     THEN trace \o <<call, [op |-> "sleep", pos |-> i]>>
                                     ELSE Append(trace, call)
                         /\ UNCHANGED response
    /\ i' = i + 1
    /\ UNCHANGED <<request, accounts_to_process>>

\* after the loop: follow_bulk builds its dict and follow() returns it
FollowBulkReturn ==
    /\ \/ fpc = "summary"
       \/ fpc = "loop" /\ i > Len(accounts_to_process)
    /\ response' = BulkReturn(Locals)
    /\ fpc' = "returned"
    /\ UNCHANGED <<request, accounts_to_process, i, results, successful, failed,
                   already_following, rate_limited, trace>>

-----------------------------------------------------------------------------
(* BlueskyScraper.deduplicate *)

DIDs == {"d1", "d2", "d3"}
KeywordPool == {"k1", "k2"}

\* accounts as deduplicate reads them: the did, and the keyword that tells
\* two records of one did apart
DedupAccounts == [did : DIDs, keyword : KeywordPool]

\* the seen_dids argument: None, or a list of identifiers
SeenArgs == {<<>>} \cup {<<l>> : l \in SeqsUpTo(DIDs, MaxSeenArg)}

Range(seq) == {seq[k] : k \in DOMAIN seq}

\* a seen-set shared by all instances instead of one set per instance
InitSeenDids_Shared == seen_dids

\* self.seen_dids of a newly constructed scraper
InitSeenDids == {}

\* the loop without "self.seen_dids.add(did)"
RECURSIVE DedupLoop_NoAdd(_, _, _)
DedupLoop_NoAdd(accounts, n, seen0) ==
    IF n = 0 THEN [unique_accounts |-> <<>>, seen_dids |-> seen0]
    ELSE LET prev == DedupLoop_NoAdd(accounts, n - 1, seen0)
             did == accounts[n].did
         IN IF did \notin prev.seen_dids
            THEN [unique_accounts |-> Append(prev.unique_accounts, accounts[n]),
                  seen_dids |-> prev.seen_dids]
            ELSE prev

\* the loop of deduplicate over accounts[1..n], from the seen-set seen0
RECURSIVE DedupLoop(_, _, _)
DedupLoop(accounts, n, seen0) ==
    IF n = 0 THEN [unique_accounts |-> <<>>, seen_dids |-> seen0]
    ELSE LET prev == DedupLoop(accounts, n - 1, seen0)
             did == accounts[n].did
         IN IF did \notin prev.seen_dids
            THEN [unique_accounts |-> Append(prev.unique_accounts, accounts[n]),
                  seen_dids |-> prev.seen_dids \cup {did}]
            ELSE prev

\* deduplicate without "self.seen_dids.update(seen_dids)"
deduplicate_NoSeed(self_seen, accounts, seen_arg) ==
    DedupLoop(accounts, Len(accounts), self_seen)

\* deduplicate with the seen-set replaced by the argument instead of updated
deduplicate_Replace(self_seen, accounts, seen_arg) ==
    LET seeded == IF seen_arg # <<>> /\ seen_arg[1] # <<>>
                  THEN Range(seen_arg[1])
                  ELSE self_seen
    IN DedupLoop(accounts, Len(accounts), seeded)

\* deduplicate(accounts, seen_dids) on an instance whose seen-set is self_seen:
\* the list returned and the seen-set left behind
deduplicate(self_seen, accounts, seen_arg) ==
    LET seeded == IF seen_arg # <<>> /\ seen_arg[1] # <<>>
                  THEN self_seen \cup Range(seen_arg[1])
                  ELSE self_seen
    IN DedupLoop(accounts, Len(accounts), seeded)

DedupStart ==
    /\ seen_dids = {}
    /\ dpc = "new"
    /\ d_accounts \in SeqsUpTo(DedupAccounts, MaxDedupLen)
    /\ d_seen_arg \in SeenArgs
    /\ d_out1 = <<>>
    /\ d_out2 = <<>>

\* no deduplicate call is being made
DedupIdle ==
    /\ seen_dids = {}
    /\ dpc = "idle"
    /\ d_accounts = <<>>
    /\ d_seen_arg = <<>>
    /\ d_out1 = <<>>
    /\ d_out2 = <<>>

\* scraper.deduplicate(X, S) on a new scraper
DedupFirst ==
    /\ dpc = "new"
    /\ LET r == deduplicate(seen_dids, d_accounts, d_seen_arg) IN
       /\ d_out1' = r.unique_accounts
       /\ seen_dids' = r.seen_dids
    /\ dpc' = "once"
    /\ UNCHANGED <<d_accounts, d_seen_arg, d_out2>>

\* the output of the first call given to deduplicate of the same scraper
DedupAgainSame ==
    /\ dpc = "once"
    /\ \E arg \in {<<>>, d_seen_arg} :
         LET r == deduplicate(seen_dids, d_out1, arg) IN
         /\ d_out2' = r.unique_accounts
         /\ seen_dids' = r.seen_dids
    /\ dpc' = "twice_same"
    /\ UNCHANGED <<d_accounts, d_seen_arg, d_out1>>

\* the output of the first call given to deduplicate of another new scraper
DedupAgainFresh ==
    /\ dpc = "once"
    /\ \E arg \in {<<>>, d_seen_arg} :
         LET r == deduplicate(InitSeenDids, d_out1, arg) IN
         /\ d_out2' = r.unique_accounts
         /\ seen_dids' = r.seen_dids
    /\ dpc' = "twice_fresh"
    /\ UNCHANGED <<d_accounts, d_seen_arg, d_out1>>

-----------------------------------------------------------------------------
(* BlueskyScraper.scrape_keyword *)

\* actor records of the remote service; display_name, description, avatar and
\* followers_count may be missing
ActorPool ==
    {[did |-> "d1", handle |-> "h1", display_name |-> "One", followers_count |-> 7],
     [did |-> "d2", handle |-> "h2"]}

\* getattr(obj, name, default)
GetAttr(obj, name, default) == IF name \in DOMAIN obj THEN obj[name] ELSE default

\* what search_actors(params) does when asked for the n-th page: a response
\* with actors and a cursor (the token of the next page, here its number), a
\* response without these attributes, or an exception
SearchOutcomes(n) ==
    {[raises |-> FALSE, value |-> [actors |-> a, cursor |-> c]] :
        a \in SeqsUpTo(ActorPool, MaxActors), c \in {<<>>, <<n + 1>>}}
    \cup {[raises |-> FALSE, value |-> [status |-> "ok"]],
          [raises |-> TRUE, msg |-> "search failed"]}

\* the dict built for one actor
Account(actor, kw) ==
    [did |-> actor.did,
     handle |-> actor.handle,
     displayName |-> GetAttr(actor, "display_name", "N/A"),
     description |-> GetAttr(actor, "description", "N/A"),
     avatar |-> GetAttr(actor, "avatar", ""),
     followersCount |-> GetAttr(actor, "followers_count", 0),
     profileUrl |-> <<"https://bsky.app/profile/", actor.handle>>,
     keyword |-> kw,
     scrapedAt |-> Now]

\* the parameters without the cursor
SearchParams_NoCursor(kw, cur) == [q |-> kw, limit |-> 100]

\* the parameters of a search call
SearchParams(kw, cur) ==
    IF cur # <<>> THEN [q |-> kw, limit |-> 100, cursor |-> cur]
    ELSE [q |-> kw, limit |-> 100]

\* the locals of scrape_keyword
KeywordLocals == [all_accounts |-> all_accounts, cursor |-> cursor, page |-> page]

\* the loop body leaving at a missing cursor before the page is kept
ScrapePage_DropLast(loc, kw, maxp, outcome) ==
    IF outcome.raises
    THEN loc @@ [broke |-> TRUE, sleeps |-> FALSE]
    ELSE LET resp == outcome.value
             actors == GetAttr(resp, "actors", <<>>)
         IN IF actors = <<>>
            THEN loc @@ [broke |-> TRUE, sleeps |-> FALSE]
            ELSE LET accs == loc.all_accounts
                               \o [k \in 1..Len(actors) |-> Account(actors[k], kw)]
                     pg == loc.page + 1
                     cur == GetAttr(resp, "cursor", <<>>)
                 IN IF cur = <<>>
                    THEN loc @@ [broke |-> TRUE, sleeps |-> FALSE]
                    ELSE [all_accounts |-> accs, cursor |-> cur, page |-> pg,
                          broke |-> FALSE, sleeps |-> pg < maxp]

\* the loop body going on to the next iteration after an exception
ScrapePage_Retry(loc, kw, maxp, outcome) ==
    IF outcome.raises
    THEN loc @@ [broke |-> FALSE, sleeps |-> FALSE]
    ELSE LET resp == outcome.value
             actors == GetAttr(resp, "actors", <<>>)
         IN IF actors = <<>>
            THEN loc @@ [broke |-> TRUE, sleeps |-> FALSE]
            ELSE LET accs == loc.all_accounts
                               \o [k \in 1..Len(actors) |-> Account(actors[k], kw)]
                     pg == loc.page + 1
                     cur == GetAttr(resp, "cursor", <<>>)
                 IN [all_accounts |-> accs, cursor |-> cur, page |-> pg,
                     broke |-> cur = <<>>,
                     sleeps |-> cur # <<>> /\ pg < maxp]

\* the loop body without "page += 1"
ScrapePage_NoCount(loc, kw, maxp, outcome) ==
    IF outcome.raises
    THEN loc @@ [broke |-> TRUE, sleeps |-> FALSE]
    ELSE LET resp == outcome.value
             actors == GetAttr(resp, "actors", <<>>)
         IN IF actors = <<>>
            THEN loc @@ [broke |-> TRUE, sleeps |-> FALSE]
            ELSE LET accs == loc.all_accounts
                               \o [k \in 1..Len(actors) |-> Account(actors[k], kw)]
                     pg == loc.page
                     cur == GetAttr(resp, "cursor", <<>>)
                 IN [all_accounts |-> accs, cursor |-> cur, page |-> pg,
                     broke |-> cur = <<>>,
                     sleeps |-> cur # <<>> /\ pg < maxp]

\* one pass through the body of the while loop, given what the search call
\* did: the locals after it, whether the loop was left, whether it slept
ScrapePage(loc, kw, maxp, outcome) ==
    IF outcome.raises
    THEN loc @@ [broke |-> TRUE, sleeps |-> FALSE]
    ELSE LET resp == outcome.value
             actors == GetAttr(resp, "actors", <<>>)
         IN IF actors = <<>>
            THEN loc @@ [broke |-> TRUE, sleeps |-> FALSE]
            ELSE LET accs == loc.all_accounts
                               \o [k \in 1..Len(actors) |-> Account(actors[k], kw)]
                     pg == loc.page + 1
                     cur == GetAttr(resp, "cursor", <<>>)
                 IN [all_accounts |-> accs, cursor |-> cur, page |-> pg,
                     broke |-> cur = <<>>,
                     sleeps |-> cur # <<>> /\ pg < maxp]

KeywordStart ==
    /\ keyword \in KeywordPool
    /\ max_pages \in 0..MaxPagesArg
    /\ spc = "loop"
    /\ all_accounts = <<>>
    /\ cursor = <<>>
    /\ page = 0
    /\ strace = <<>>
    /\ scraped = <<>>

\* no scrape_keyword call is being made
KeywordIdle ==
    /\ keyword = "k1"
    /\ max_pages = 0
    /\ spc = "idle"
    /\ all_accounts = <<>>
    /\ cursor = <<>>
    /\ page = 0
    /\ strace = <<>>
    /\ scraped = <<>>

\* one iteration of the while loop, the search call doing one of outcomes
ScrapePageWith(outcomes) ==
    /\ spc = "loop"
    /\ page < max_pages
    /\ \E outcome \in outcomes :
         LET new == ScrapePage(KeywordLocals, keyword, max_pages, outcome)
             call == [op |-> "search", params |-> SearchParams(keyword, cursor),
                      outcome |-> outcome]
         IN /\ all_accounts' = new.all_accounts
            /\ cursor' = new.cursor
            /\ page' = new.page
            /\ spc' = IF new.broke THEN "after" ELSE "loop"
            /\ strace' = IF new.sleeps
                         THEN strace \o <<call, [op |-> "sleep"]>>
                         ELSE Append(strace, call)
    /\ UNCHANGED <<keyword, max_pages, scraped>>

\* one iteration of the while loop
ScrapePageStep == ScrapePageWith(SearchOutcomes(page + 1))

\* after the loop: return all_accounts
ScrapeKeywordReturn ==
    /\ \/ spc = "after"
       \/ spc = "loop" /\ page >= max_pages
    /\ scraped' = all_accounts
    /\ spc' = "done"
    /\ UNCHANGED <<keyword, max_pages, all_accounts, cursor, page, strace>>

-----------------------------------------------------------------------------
(* BlueskyScraper.scrape_multiple_keywords and the scrape endpoint *)

Actor1 == [did |-> "d1", handle |-> "h1", display_name |-> "One", followers_count |-> 7]
Actor2 == [did |-> "d2", handle |-> "h2"]
Actor3 == [did |-> "d3", handle |-> "h3", description |-> "three"]

\* the pages the remote service serves during a run over several keywords
PagePool == {<<>>, <<Actor1>>, <<Actor1, Actor2, Actor3>>}

\* what search_actors(params) does then, asked for the n-th page of a keyword
ScrapeOutcomes(n) ==
    {[raises |-> FALSE, value |-> [actors |-> a, cursor |-> c]] :
        a \in PagePool, c \in {<<>>, <<n + 1>>}}
    \cup {[raises |-> TRUE, msg |-> "search failed"]}

\* ScrapeRequest.max_pages and ScrapeRequest.seen_dids of the requests made
ScrapePageCaps == 0..2
ScrapeSeenLists == {<<>>, <<"d1">>}

\* the locals of scrape_keyword when it starts
NewKeywordLocals == [all_accounts |-> <<>>, cursor |-> <<>>, page |-> 0]

\* the loop body putting the new accounts in front of the list
AfterKeyword_Prepend(acc, accounts, n, total) ==
    [all_accounts |-> accounts \o acc, sleeps |-> n < total, next |-> n + 1]

\* the loop body leaving the loop when a keyword gave no account
AfterKeyword_StopOnEmpty(acc, accounts, n, total) ==
    [all_accounts |-> acc \o accounts, sleeps |-> n < total,
     next |-> IF accounts = <<>> THEN total + 1 ELSE n + 1]

\* the loop body sleeping after the last keyword too
AfterKeyword_AlwaysSleeps(acc, accounts, n, total) ==
    [all_accounts |-> acc \o accounts, sleeps |-> TRUE, next |-> n + 1]

\* scrape_multiple_keywords, loop body after scrape_keyword returned accounts
\* for the n-th of total keywords: the list so far, whether it sleeps, and
\* the index the loop goes on with
AfterKeyword(acc, accounts, n, total) ==
    [all_accounts |-> acc \o accounts, sleeps |-> n < total, next |-> n + 1]

\* the dict the scrape handler returns
ScrapeResponse(accounts, unique_accounts, nkeywords) ==
    [kind |-> "ok",
     success |-> TRUE,
     total_scraped |-> Len(accounts),
     unique_accounts |-> Len(unique_accounts),
     duplicates_removed |-> Len(accounts) - Len(unique_accounts),
     keywords_processed |-> nkeywords,
     accounts |-> unique_accounts]

ScrapeStart ==
    /\ srequest \in [keywords : SeqsUpTo(KeywordPool, MaxKeywords),
                     max_pages : ScrapePageCaps,
                     seen_dids : ScrapeSeenLists]
    /\ keywords = <<>>
    /\ ki = 1
    /\ mpc = "start"
    /\ m_accounts = <<>>
    /\ per_kw = <<>>
    /\ sresponse = [kind |-> "none"]

\* no scrape request is being served
ScrapeIdle ==
    /\ srequest = [keywords |-> <<>>, max_pages |-> 0, seen_dids |-> <<>>]
    /\ keywords = <<>>
    /\ ki = 1
    /\ mpc = "idle"
    /\ m_accounts = <<>>
    /\ per_kw = <<>>
    /\ sresponse = [kind |-> "none"]

\* scrape(): BlueskyScraper(max_pages, delay), then scrape_multiple_keywords
\* is entered with request.keywords
ScrapeBegin ==
    /\ mpc = "start"
    /\ max_pages' = srequest.max_pages
    /\ seen_dids' = InitSeenDids
    /\ keywords' = srequest.keywords
    /\ m_accounts' = <<>>
    /\ per_kw' = <<>>
    /\ ki' = 1
    /\ mpc' = "multi"
    /\ UNCHANGED <<srequest, sresponse, keyword, spc, all_accounts, cursor, page,
                   strace, scraped, dpc, d_accounts, d_seen_arg, d_out1, d_out2>>

\* the loop of scrape_multiple_keywords calls scrape_keyword(keyword)
ScrapeMultipleCall ==
    /\ mpc = "multi"
    /\ ki <= Len(keywords)
    /\ keyword' = keywords[ki]
    /\ all_accounts' = NewKeywordLocals.all_accounts
    /\ cursor' = NewKeywordLocals.cursor
    /\ page' = NewKeywordLocals.page
    /\ spc' = "loop"
    /\ strace' = Append(strace, [op |-> "begin", keyword |-> keywords[ki], ki |-> ki])
    /\ mpc' = "keyword"
    /\ UNCHANGED <<srequest, keywords, ki, m_accounts, per_kw, sresponse,
                   max_pages, scraped, dvars>>

\* scrape_keyword returned: extend all_accounts, sleep unless it was the last
ScrapeMultipleExtend ==
    /\ mpc = "keyword"
    /\ spc = "done"
    /\ LET new == AfterKeyword(m_accounts, scraped, ki, Len(keywords)) IN
       /\ m_accounts' = new.all_accounts
       /\ ki' = new.next
       /\ strace' = IF new.sleeps
                    THEN Append(strace, [op |-> "sleep", between |-> TRUE])
                    ELSE strace
    /\ per_kw' = Append(per_kw, scraped)
    /\ mpc' = "multi"
    /\ UNCHANGED <<srequest, keywords, sresponse, keyword, max_pages, spc,
                   all_accounts, cursor, page, scraped, dvars>>

\* the loop is over: scrape_multiple_keywords returns all_accounts
ScrapeMultipleReturn ==
    /\ mpc = "multi"
    /\ ki > Len(keywords)
    /\ mpc' = "multi_done"
    /\ UNCHANGED <<srequest, keywords, ki, m_accounts, per_kw, sresponse,
                   svars, dvars>>

\* scrape(): deduplicate(accounts, request.seen_dids) and the response
ScrapeRespond ==
    /\ mpc = "multi_done"
    /\ LET r == deduplicate(seen_dids, m_accounts, <<srequest.seen_dids>>) IN
       /\ seen_dids' = r.seen_dids
       /\ sresponse' = ScrapeResponse(m_accounts, r.unique_accounts,
                                      Len(srequest.keywords))
    /\ mpc' = "responded"
    /\ UNCHANGED <<srequest, keywords, ki, m_accounts, per_kw, svars,
                   dpc, d_accounts, d_seen_arg, d_out1, d_out2>>

\* no call is made on a scraper instance kept over several calls
InstanceIdle ==
    /\ ncalls = 0
    /\ d_returned = <<>>
    /\ d_supplied = {}

-----------------------------------------------------------------------------
(* One BlueskyScraper instance used for several calls *)

MaxCalls == 3

InstancePageCaps == {1, 2}
InstanceKeywordLists == {<<>>, <<"k2", "k1">>}

\* what search_actors(params) does during these calls, asked for the n-th page
InstanceOutcomes(n) ==
    {[raises |-> FALSE, value |-> [actors |-> <<Actor1>>, cursor |-> <<n + 1>>]],
     [raises |-> FALSE, value |-> [actors |-> <<Actor2, Actor1>>, cursor |-> <<>>]],
     [raises |-> TRUE, msg |-> "search failed"]}
InstanceSeenArgs == {<<>>, <<<<>>>>, <<<<"d1">>>>, <<<<"d2", "d3">>>>}
InstanceAccountLists ==
    {<<>>,
     <<[did |-> "d2", keyword |-> "k1"]>>,
     <<[did |-> "d3", keyword |-> "k2"], [did |-> "d1", keyword |-> "k2"],
       [did |-> "d3", keyword |-> "k1"]>>}

\* no call is running on the instance: the locals of its methods do not exist
InstanceReady ==
    /\ keyword = "k1"
    /\ spc = "idle"
    /\ all_accounts = <<>>
    /\ cursor = <<>>
    /\ page = 0
    /\ strace = <<>>
    /\ scraped = <<>>
    /\ keywords = <<>>
    /\ ki = 1
    /\ mpc = "ready"
    /\ m_accounts = <<>>
    /\ per_kw = <<>>

\* a method returns: its locals are gone
InstanceForget ==
    /\ keyword' = "k1"
    /\ spc' = "idle"
    /\ all_accounts' = <<>>
    /\ cursor' = <<>>
    /\ page' = 0
    /\ strace' = <<>>
    /\ scraped' = <<>>
    /\ keywords' = <<>>
    /\ ki' = 1
    /\ mpc' = "ready"
    /\ m_accounts' = <<>>
    /\ per_kw' = <<>>

\* BlueskyScraper(max_pages, delay): the instance before its first call
InstanceStart ==
    /\ InstanceReady
    /\ max_pages \in InstancePageCaps
    /\ seen_dids = InitSeenDids
    /\ dpc = "idle"
    /\ d_accounts = <<>>
    /\ d_seen_arg = <<>>
    /\ d_out1 = <<>>
    /\ d_out2 = <<>>
    /\ srequest = [keywords |-> <<>>, max_pages |-> 0, seen_dids |-> <<>>]
    /\ sresponse = [kind |-> "none"]
    /\ InstanceIdle

\* the caller calls scrape_keyword(keyword)
InstanceScrapeKeyword ==
    /\ mpc = "ready"
    /\ ncalls < MaxCalls
    /\ \E kw \in KeywordPool :
         /\ keyword' = kw
         /\ strace' = <<[op |-> "begin", keyword |-> kw, ki |-> 1]>>
    /\ all_accounts' = NewKeywordLocals.all_accounts
    /\ cursor' = NewKeywordLocals.cursor
    /\ page' = NewKeywordLocals.page
    /\ spc' = "loop"
    /\ mpc' = "single"
    /\ ncalls' = ncalls + 1
    /\ UNCHANGED <<srequest, keywords, ki, m_accounts, per_kw, sresponse,
                   max_pages, scraped, dvars, d_returned, d_supplied>>

\* scrape_keyword returned to the caller, who holds the list
InstanceKeywordReturned ==
    /\ mpc = "single"
    /\ spc = "done"
    /\ d_accounts' = scraped
    /\ InstanceForget
    /\ UNCHANGED <<srequest, sresponse, max_pages,
                   seen_dids, dpc, d_seen_arg, d_out1, d_out2, ivars>>

\* the caller calls scrape_multiple_keywords(keywords)
InstanceScrapeMultiple ==
    /\ mpc = "ready"
    /\ ncalls < MaxCalls
    /\ keywords' \in InstanceKeywordLists
    /\ ki' = 1
    /\ m_accounts' = <<>>
    /\ per_kw' = <<>>
    /\ strace' = <<>>
    /\ mpc' = "multi"
    /\ ncalls' = ncalls + 1
    /\ UNCHANGED <<srequest, sresponse, keyword, max_pages, spc, all_accounts,
                   cursor, page, scraped, dvars, d_returned, d_supplied>>

\* scrape_multiple_keywords returned to the caller, who holds the list
InstanceMultipleReturned ==
    /\ mpc = "multi_done"
    /\ d_accounts' = m_accounts
    /\ InstanceForget
    /\ UNCHANGED <<srequest, sresponse, max_pages,
                   seen_dids, dpc, d_seen_arg, d_out1, d_out2, ivars>>

\* the caller calls deduplicate(accounts, seen_dids) with the list it holds
\* or another one, and keeps the list returned
InstanceDeduplicate ==
    /\ mpc = "ready"
    /\ ncalls < MaxCalls
    /\ \E accounts \in {d_accounts} \cup InstanceAccountLists, arg \in InstanceSeenArgs :
         LET r == deduplicate(seen_dids, accounts, arg) IN
         /\ seen_dids' = r.seen_dids
         /\ d_accounts' = r.unique_accounts
         /\ d_returned' = d_returned
                \o [k \in 1..Len(r.unique_accounts) |-> r.unique_accounts[k].did]
         /\ d_supplied' = d_supplied
                \cup (IF arg = <<>> THEN {} ELSE Range(arg[1]))
    /\ ncalls' = ncalls + 1
    /\ UNCHANGED <<mvars, svars, dpc, d_seen_arg, d_out1, d_out2>>

-----------------------------------------------------------------------------
(* Specifications *)

\* one request to the follow endpoint
Init == FollowerStart /\ DedupIdle /\ KeywordIdle /\ ScrapeIdle /\ InstanceIdle

Next ==
    \/ FollowerConstruct /\ UNCHANGED <<dvars, svars, mvars, ivars>>
    \/ FollowBulkBegin /\ UNCHANGED <<dvars, svars, mvars, ivars>>
    \/ FollowBulkStep /\ UNCHANGED <<dvars, svars, mvars, ivars>>
    \/ FollowBulkReturn /\ UNCHANGED <<dvars, svars, mvars, ivars>>

Spec == Init /\ [][Next]_vars

\* deduplicate called once and then once more on its own output
InitDedup == FollowerIdle /\ DedupStart /\ KeywordIdle /\ ScrapeIdle /\ InstanceIdle

NextDedup ==
    \/ DedupFirst /\ UNCHANGED <<fvars, svars, mvars, ivars>>
    \/ DedupAgainSame /\ UNCHANGED <<fvars, svars, mvars, ivars>>
    \/ DedupAgainFresh /\ UNCHANGED <<fvars, svars, mvars, ivars>>

SpecDedup == InitDedup /\ [][NextDedup]_vars

\* one call of scrape_keyword
InitKeyword == FollowerIdle /\ DedupIdle /\ KeywordStart /\ ScrapeIdle /\ InstanceIdle

NextKeyword ==
    \/ ScrapePageStep /\ UNCHANGED <<fvars, dvars, mvars, ivars>>
    \/ ScrapeKeywordReturn /\ UNCHANGED <<fvars, dvars, mvars, ivars>>

SpecKeyword == InitKeyword /\ [][NextKeyword]_vars

\* one request to the scrape endpoint
InitScrape == FollowerIdle /\ DedupIdle /\ KeywordIdle /\ ScrapeStart /\ InstanceIdle

NextScrape ==
    \/ ScrapeBegin /\ UNCHANGED <<fvars, ivars>>
    \/ ScrapeMultipleCall /\ UNCHANGED <<fvars, ivars>>
    \/ ScrapePageWith(ScrapeOutcomes(page + 1)) /\ UNCHANGED <<fvars, dvars, mvars, ivars>>
    \/ ScrapeKeywordReturn /\ UNCHANGED <<fvars, dvars, mvars, ivars>>
    \/ ScrapeMultipleExtend /\ UNCHANGED <<fvars, ivars>>
    \/ ScrapeMultipleReturn /\ UNCHANGED <<fvars, ivars>>
    \/ ScrapeRespond /\ UNCHANGED <<fvars, ivars>>

SpecScrape == InitScrape /\ [][NextScrape]_vars

\* one scraper instance and the calls made on it
InitInstance == FollowerIdle /\ InstanceStart

NextInstance ==
    \/ InstanceScrapeKeyword /\ UNCHANGED fvars
    \/ InstanceKeywordReturned /\ UNCHANGED fvars
    \/ InstanceScrapeMultiple /\ UNCHANGED fvars
    \/ InstanceMultipleReturned /\ UNCHANGED fvars
    \/ InstanceDeduplicate /\ UNCHANGED fvars
    \/ ScrapeMultipleCall /\ UNCHANGED <<fvars, ivars>>
    \/ ScrapePageWith(InstanceOutcomes(page + 1)) /\ UNCHANGED <<fvars, dvars, mvars, ivars>>
    \/ ScrapeKeywordReturn /\ UNCHANGED <<fvars, dvars, mvars, ivars>>
    \/ ScrapeMultipleExtend /\ UNCHANGED <<fvars, ivars>>
    \/ ScrapeMultipleReturn /\ UNCHANGED <<fvars, ivars>>

SpecInstance == InitInstance /\ [][NextInstance]_vars

\* one call of scrape_keyword, which runs on until it returns
SpecKeywordFair == SpecKeyword /\ WF_vars(NextKeyword)

-----------------------------------------------------------------------------
(* Properties of the follow endpoint, checked under Spec *)

FollowCalls(t) == SelectSeq(t, LAMBDA e : e.op = "follow")
LoginCalls(t) == SelectSeq(t, LAMBDA e : e.op = "login")

IsSuccess(r) == r.success
IsAlreadyFollowing(r) == ~r.success /\ r.error = STR_Already_following
IsRateLimited(r) == ~r.success /\ r.error = STR_Rate_limited
IsOtherFailure(r) == ~r.success /\ r.error # STR_Already_following
                                /\ r.error # STR_Rate_limited
IsMissingDid(r) == ~r.success /\ r.error = STR_No_DID_provided

Count(seq, P(_)) == Cardinality({k \in 1..Len(seq) : P(seq[k])})

RateLimitedSeen == \E k \in 1..Len(results) : IsRateLimited(results[k])

Returned == fpc = "returned"
ReturnedOk == fpc = "returned" /\ response.kind = "ok"

\* the result at position k is the one of the k-th account to process
ResultOfAccount(r, account) ==
    /\ r.did = (IF Truthy(ExtractDid(account)) THEN ExtractDid(account) ELSE None)
    /\ r.handle = ExtractHandle(account)

\* C1: once a follow attempt is classified "Rate limited", the results list
\* and the remote follow calls never change again; the rate-limited result is
\* the last of results, results holds exactly the accounts up to it, and the
\* summary returned has rate_limited_stopped true and total_attempted equal
\* to the position of the rate-limited account.
C1_RateLimitStopsBatch ==
    /\ [](\A k \in 1..Len(results) :
            IsRateLimited(results[k]) =>
               /\ k = Len(results)
               /\ fpc \in {"summary", "returned"}
               /\ FollowCalls(trace)[Len(FollowCalls(trace))].pos = k
               /\ \A j \in 1..k : ResultOfAccount(results[j], accounts_to_process[j])
               /\ (fpc = "returned" =>
                     /\ response.kind = "ok"
                     /\ response.results = results
                     /\ response.summary.rate_limited_stopped = TRUE
                     /\ response.summary.total_attempted = k))
    /\ [][RateLimitedSeen =>
            /\ results' = results
            /\ FollowCalls(trace') = FollowCalls(trace)]_vars

\* [A,B,C] with B rate limited: two results, C never attempted
C1_Witness ==
    /\ ReturnedOk
    /\ Len(accounts_to_process) = 3
    /\ Len(response.results) = 2
    /\ IsRateLimited(response.results[2])
    /\ Len(FollowCalls(trace)) = 2
    /\ response.summary.total_attempted = 2

\* C2: the summary returned by follow_bulk equals the counts over the
\* results returned with it.
C2_SummaryIsCounts ==
    ReturnedOk =>
      LET rs == response.results
          sm == response.summary
      IN /\ sm.total_attempted = Len(rs)
         /\ sm.successful = Count(rs, IsSuccess)
         /\ sm.already_following = Count(rs, IsAlreadyFollowing)
         /\ sm.rate_limited = Count(rs, IsRateLimited)
         /\ sm.failed = Count(rs, IsOtherFailure)
         /\ sm.total_attempted =
              sm.successful + sm.already_following + sm.failed + sm.rate_limited

C2_Witness ==
    /\ ReturnedOk
    /\ response.summary.successful = 1
    /\ response.summary.rate_limited = 1
    /\ response.summary.failed = 1
    /\ \E k \in 1..Len(response.results) : IsMissingDid(response.results[k])

\* C3: when max_follows is given (any integer >= 0, 0 included), at most
\* max_follows results are returned and no follow call is made for an account
\* at a position beyond max_follows.
C3_MaxFollowsTruncates ==
    (ReturnedOk /\ request.max_follows # <<>> /\ request.max_follows[1] >= 0) =>
       /\ Len(response.results) <= request.max_follows[1]
       /\ \A k \in 1..Len(trace) :
            trace[k].op = "follow" => trace[k].pos <= request.max_follows[1]

\* C4: an account with no identifier under 'did' and 'DID' gets the result
\* "No DID provided", causes no remote call, increments failed, and the loop
\* goes on with the next account.
C4_MissingDidSkipped ==
    [][(fpc = "loop" /\ i <= Len(accounts_to_process)
          /\ accounts_to_process[i].did = None
          /\ accounts_to_process[i].DID = None) =>
         /\ results' = Append(results,
                              [did |-> None,
                               handle |-> ExtractHandle(accounts_to_process[i]),
                               success |-> FALSE,
                               error |-> STR_No_DID_provided])
         /\ trace' = trace
         /\ failed' = failed + 1
         /\ <<successful', already_following', rate_limited'>>
              = <<successful, already_following, rate_limited>>
         /\ fpc' = "loop"
         /\ i' = i + 1]_vars

\* a skipped account followed by an account that was attempted
C4_Witness ==
    /\ ReturnedOk
    /\ Len(response.results) >= 2
    /\ IsMissingDid(response.results[1])
    /\ response.results[2].did # None
    /\ Len(FollowCalls(trace)) = Len(response.results) - 1

\* C5: when no result is classified "Rate limited", the batch returns one
\* result per account to process, in input order, and rate_limited_stopped is
\* false.
C5_OnlyRateLimitStops ==
    (ReturnedOk /\ ~RateLimitedSeen) =>
       /\ Len(response.results) = Len(accounts_to_process)
       /\ \A k \in 1..Len(accounts_to_process) :
            ResultOfAccount(response.results[k], accounts_to_process[k])
       /\ response.summary.rate_limited_stopped = FALSE

\* a generic failure, an already-following and a missing identifier, yet the
\* batch completed
C5_Witness ==
    /\ ReturnedOk
    /\ Len(accounts_to_process) = 3
    /\ Len(response.results) = 3
    /\ response.summary.failed = 2
    /\ response.summary.already_following = 1
    /\ \E k \in 1..3 : IsMissingDid(response.results[k])
    /\ \E k \in 1..3 : ~response.results[k].success
                         /\ response.results[k].error = MsgNear

\* C6: follow_user returns for every remote outcome (the handler never ends
\* with an exception after a successful login), and its result is success
\* when the call returned, else "Already following" when the lower-cased
\* message contains "already following", else "Rate limited" when it contains
\* "rate limit", else the raw message.
C6_FollowUserClassifies ==
    /\ (Returned /\ ~trace[1].outcome.raises => response.kind = "ok")
    /\ \A k \in 1..Len(trace) :
         trace[k].op = "follow" =>
           LET e == trace[k]
               r == results[e.pos]
               low == Lower(e.outcome.msg)
           IN /\ e.pos <= Len(results)
              /\ r.success = ~e.outcome.raises
              /\ e.outcome.raises =>
                   /\ Contains(low, STR_already_following)
                        => r.error = STR_Already_following
                   /\ (~Contains(low, STR_already_following)
                         /\ Contains(low, STR_rate_limit))
                        => r.error = STR_Rate_limited
                   /\ (~Contains(low, STR_already_following)
                         /\ ~Contains(low, STR_rate_limit))
                        => r.error = e.outcome.msg

\* a message with both substrings was classified "Already following" and the
\* batch went on to the next account
C6_Witness ==
    /\ ReturnedOk
    /\ Len(response.results) = 2
    /\ Len(FollowCalls(trace)) = 2
    /\ FollowCalls(trace)[1].outcome = [raises |-> TRUE, msg |-> MsgBoth]
    /\ IsAlreadyFollowing(response.results[1])
    /\ response.results[2].success

\* C7: the first remote call is the one authentication call and there is no
\* other; when it fails the handler ends with an error, without any follow
\* call, results or summary.
C7_LoginOnceFirst ==
    /\ fpc # "start" => (Len(trace) >= 1 /\ trace[1].op = "login")
    /\ Len(LoginCalls(trace)) <= 1
    /\ (Len(trace) >= 1 /\ trace[1].outcome.raises) =>
         /\ fpc = "returned"
         /\ response.kind = "HTTPException"
         /\ response.status_code = 500
         /\ DOMAIN response \cap {"results", "summary"} = {}
         /\ FollowCalls(trace) = <<>>
         /\ results = <<>>

C7_Witness ==
    /\ Returned
    /\ response.kind = "HTTPException"
    /\ Len(trace) = 1
    /\ trace[1].op = "login"
    /\ Len(request.accounts) = 3

\* C16: every result of follow_bulk has the keys did, handle, success and
\* timestamp, and the key error when success is false.
C16_ResultFields ==
    \A k \in 1..Len(results) :
       /\ {"did", "handle", "success", "timestamp"} \subseteq DOMAIN results[k]
       /\ ~results[k].success => "error" \in DOMAIN results[k]

SleptAfter(p) == \E j \in 1..Len(trace) : trace[j].op = "sleep" /\ trace[j].pos = p

\* C17: the delay elapses after the account at position p exactly when its
\* follow attempt succeeded and p is not the last position of the list to
\* process; a delay comes right after the follow call of its account, once.
C17_DelayIffSuccessAndMore ==
    /\ \A p \in 1..Len(results) :
         SleptAfter(p) <=> (results[p].success /\ p < Len(accounts_to_process))
    /\ \A j \in 1..Len(trace) :
         trace[j].op = "sleep" =>
            /\ j > 1
            /\ trace[j - 1].op = "follow"
            /\ trace[j - 1].pos = trace[j].pos
            /\ trace[j].pos <= Len(results)

\* a success followed by a delay, a generic failure and a skip without one,
\* or a success in last position without one
C17_Witness ==
    /\ ReturnedOk
    /\ Len(response.results) = 3
    /\ response.results[1].success
    /\ ~response.results[2].success
    /\ response.results[2].did # None
    /\ response.results[3].success
    /\ Len(SelectSeq(trace, LAMBDA e : e.op = "sleep")) = 1
    /\ SleptAfter(1)

-----------------------------------------------------------------------------
(* Properties of deduplicate, checked under SpecDedup *)

\* the identifiers of a seen_dids argument
ArgSet(seen_arg) == IF seen_arg = <<>> THEN {} ELSE Range(seen_arg[1])

\* positions of X holding the first occurrence of an identifier outside S
KeptPositions(X, S) ==
    {k \in 1..Len(X) :
        /\ X[k].did \notin S
        /\ \A j \in 1..(k - 1) : X[j].did # X[k].did}

\* the subsequence of X at the positions K
RECURSIVE PickUpTo(_, _, _)
PickUpTo(X, K, n) ==
    IF n = 0 THEN <<>>
    ELSE IF n \in K THEN Append(PickUpTo(X, K, n - 1), X[n])
    ELSE PickUpTo(X, K, n - 1)

\* C8: on a scraper with an empty seen-set, deduplicate(X, S) returns the
\* subsequence of X made of the first occurrence of each identifier not in S.
C8_DedupFirstOccurrences ==
    dpc # "new" =>
       d_out1 = PickUpTo(d_accounts,
                         KeptPositions(d_accounts, ArgSet(d_seen_arg)),
                         Len(d_accounts))

\* one account removed for being in S, one for being a repetition, one kept
C8_Witness ==
    /\ dpc = "once"
    /\ Len(d_accounts) = 3
    /\ Len(d_out1) = 1
    /\ d_accounts[1].did \in ArgSet(d_seen_arg)
    /\ d_accounts[2].did = d_accounts[3].did
    /\ d_accounts[2] # d_accounts[3]
    /\ d_out1[1] = d_accounts[2]

\* C9 as stated: a second pass over the output of deduplicate returns that
\* output unchanged, whichever scraper instance runs the second pass.
C9_Idempotent ==
    dpc \in {"twice_same", "twice_fresh"} => d_out2 = d_out1

\* C9 as amended: the second pass returns the output unchanged when it runs
\* on a scraper whose seen-set is empty, and returns the empty list when it
\* runs on the instance that made the first pass.
C9_IdempotentOnNewScraper ==
    /\ dpc = "twice_fresh" => d_out2 = d_out1
    /\ dpc = "twice_same" => d_out2 = <<>>

C9_Witness ==
    /\ dpc = "twice_fresh"
    /\ Len(d_accounts) = 3
    /\ Len(d_out1) = 2
    /\ d_out2 = d_out1
    /\ seen_dids = {d_out1[1].did, d_out1[2].did}

-----------------------------------------------------------------------------
(* Properties of scrape_keyword, checked under SpecKeyword *)

SearchCalls(t) == SelectSeq(t, LAMBDA e : e.op = "search")

\* the actors of the pages served to the first n search calls, in order
RECURSIVE ServedActors(_, _)
ServedActors(calls, n) ==
    IF n = 0 THEN <<>>
    ELSE ServedActors(calls, n - 1)
           \o (IF calls[n].outcome.raises THEN <<>>
               ELSE GetAttr(calls[n].outcome.value, "actors", <<>>))

AllServed == ServedActors(SearchCalls(strace), Len(SearchCalls(strace)))

NoSearchRaised == \A k \in 1..Len(strace) :
                     strace[k].op = "search" => ~strace[k].outcome.raises

\* scrape_keyword returned, before the page cap and with no call raising
StreamExhausted == spc = "done" /\ NoSearchRaised /\ page < max_pages

\* C10 as stated: the number of accounts returned is the number of distinct
\* identifiers on the pages served.
C10_ReturnsDistinctCount ==
    StreamExhausted =>
       Len(scraped) = Cardinality({AllServed[k].did : k \in 1..Len(AllServed)})

\* C10 as amended: the accounts returned are the actor records of the pages
\* served, one account per record and in the order served, an identifier that
\* is served twice being returned twice.
C10_ReturnsEveryRecord ==
    StreamExhausted =>
       /\ Len(scraped) = Len(AllServed)
       /\ \A k \in 1..Len(scraped) :
            /\ scraped[k].did = AllServed[k].did
            /\ scraped[k].handle = AllServed[k].handle
            /\ scraped[k].keyword = keyword

\* two pages, the second without cursor, one identifier served on both
C10_Witness ==
    /\ StreamExhausted
    /\ Len(SearchCalls(strace)) = 2
    /\ Len(scraped) = 3
    /\ Cardinality({AllServed[k].did : k \in 1..Len(AllServed)}) = 2
    /\ scraped[1].did = scraped[3].did

\* the accounts scrape_keyword builds from the actors of the pages served
ServedAccounts == [k \in 1..Len(AllServed) |-> Account(AllServed[k], keyword)]

\* C12: a search call that raises is the last thing scrape_keyword does with
\* the remote service: no call and no delay follows it, the loop is left, and
\* what is returned is the accounts of the pages served before it.
C12_RaiseStopsPagination ==
    \A j \in 1..Len(strace) :
       (strace[j].op = "search" /\ strace[j].outcome.raises) =>
          /\ j = Len(strace)
          /\ spc \in {"after", "done"}
          /\ all_accounts = ServedAccounts
          /\ spc = "done" => scraped = ServedAccounts

\* the third page raised; the accounts of the first two pages were returned
C12_Witness ==
    /\ spc = "done"
    /\ Len(SearchCalls(strace)) = 3
    /\ strace[Len(strace)].op = "search"
    /\ strace[Len(strace)].outcome.raises
    /\ page = 2
    /\ Len(scraped) >= 2

\* C14: scrape_keyword never makes more than max_pages search calls, never
\* counts more than max_pages pages, and returns.
C14_PageCapCeiling ==
    /\ [](/\ Len(SearchCalls(strace)) <= max_pages
          /\ page <= max_pages
          /\ Len(all_accounts) <= max_pages * MaxActors)
    /\ <>(spc = "done")

\* the service gave a full page and a cursor every time; the cap ended it
C14_Witness ==
    /\ spc = "done"
    /\ max_pages = 2
    /\ Len(SearchCalls(strace)) = 2
    /\ page = 2
    /\ cursor # <<>>
    /\ Len(scraped) = 2 * MaxActors

-----------------------------------------------------------------------------
(* Properties of the scrape endpoint, checked under SpecScrape *)

RECURSIVE ConcatUpTo(_, _)
ConcatUpTo(seqs, n) ==
    IF n = 0 THEN <<>> ELSE ConcatUpTo(seqs, n - 1) \o seqs[n]

\* the accounts of the pages served to the search calls among t[lo..hi], in
\* order, each with the keyword its call asked for
RECURSIVE AccountsBetween(_, _, _)
AccountsBetween(t, lo, hi) ==
    IF hi < lo THEN <<>>
    ELSE AccountsBetween(t, lo, hi - 1)
           \o (IF t[hi].op = "search" /\ ~t[hi].outcome.raises
               THEN LET actors == GetAttr(t[hi].outcome.value, "actors", <<>>)
                    IN [k \in 1..Len(actors) |-> Account(actors[k], t[hi].params.q)]
               ELSE <<>>)

\* where in strace the k-th scrape_keyword call of the run starts and ends
BeginPos(k) == CHOOSE j \in 1..Len(strace) : strace[j].op = "begin" /\ strace[j].ki = k
NumBegun == Cardinality({j \in 1..Len(strace) : strace[j].op = "begin"})
EndPos(k) == IF k < NumBegun THEN BeginPos(k + 1) - 1 ELSE Len(strace)

MultipleReturned == mpc \in {"multi_done", "responded"}

\* C11: what scrape_multiple_keywords returns is the concatenation, in keyword
\* order, of what its scrape_keyword calls returned, one call per keyword, and
\* these are the accounts of the pages served for that keyword, none removed;
\* with no keyword nothing is returned and the remote service is not called.
C11_ConcatInKeywordOrder ==
    MultipleReturned =>
       /\ Len(per_kw) = Len(keywords)
       /\ m_accounts = ConcatUpTo(per_kw, Len(per_kw))
       /\ \A k \in 1..Len(per_kw) :
            /\ per_kw[k] = AccountsBetween(strace, BeginPos(k), EndPos(k))
            /\ \A j \in 1..Len(per_kw[k]) : per_kw[k][j].keyword = keywords[k]
       /\ keywords = <<>> => (m_accounts = <<>> /\ strace = <<>>)

\* three accounts for the first keyword, one for the second, one identifier
\* under both
C11_Witness ==
    /\ mpc = "multi_done"
    /\ keywords = <<"k2", "k1">>
    /\ Len(per_kw[1]) = 3
    /\ Len(per_kw[2]) = 1
    /\ Len(m_accounts) = 4
    /\ m_accounts[1].did = m_accounts[4].did
    /\ m_accounts[1].keyword = "k2"
    /\ m_accounts[4].keyword = "k1"

\* C13: scrape_keyword is called for every keyword, in order, whatever the
\* earlier calls met; with max_pages >= 1 every keyword is searched for; a
\* keyword whose first search call raises gives no account, and the accounts
\* of the other keywords are returned.
C13_KeywordErrorDoesNotAbort ==
    MultipleReturned =>
       /\ NumBegun = Len(keywords)
       /\ \A k \in 1..Len(keywords) :
            /\ strace[BeginPos(k)].keyword = keywords[k]
            /\ k > 1 => BeginPos(k - 1) < BeginPos(k)
            /\ max_pages >= 1 =>
                 /\ BeginPos(k) < Len(strace)
                 /\ strace[BeginPos(k) + 1].op = "search"
                 /\ strace[BeginPos(k) + 1].params.q = keywords[k]
                 /\ strace[BeginPos(k) + 1].outcome.raises => per_kw[k] = <<>>
       /\ m_accounts = AccountsBetween(strace, 1, Len(strace))

\* the first keyword failed on its first page, the second was still scraped
C13_Witness ==
    /\ mpc = "multi_done"
    /\ Len(keywords) = 2
    /\ strace[2].op = "search"
    /\ strace[2].outcome.raises
    /\ per_kw[1] = <<>>
    /\ Len(per_kw[2]) = 3
    /\ m_accounts = per_kw[2]

\* C15: in the response, total_scraped counts the accounts collected over all
\* keywords, unique_accounts is the length of accounts, duplicates_removed is
\* their difference, and accounts holds no identifier of the request's
\* seen_dids and no identifier twice.
C15_ScrapeResponseCounts ==
    mpc = "responded" =>
       LET accs == sresponse.accounts IN
       /\ sresponse.kind = "ok"
       /\ sresponse.total_scraped = Len(AccountsBetween(strace, 1, Len(strace)))
       /\ sresponse.unique_accounts = Len(accs)
       /\ sresponse.duplicates_removed
            = sresponse.total_scraped - sresponse.unique_accounts
       /\ \A k \in 1..Len(accs) : accs[k].did \notin Range(srequest.seen_dids)
       /\ \A k, j \in 1..Len(accs) : k # j => accs[k].did # accs[j].did
       /\ \A k \in 1..Len(accs) : \E j \in 1..Len(m_accounts) : accs[k] = m_accounts[j]

\* one keyword, one page of three actors without cursor: 3 / 3 / 0
C15_Witness ==
    /\ mpc = "responded"
    /\ Len(srequest.keywords) = 1
    /\ srequest.max_pages = 1
    /\ srequest.seen_dids = <<>>
    /\ Len(SearchCalls(strace)) = 1
    /\ sresponse.total_scraped = 3
    /\ sresponse.unique_accounts = 3
    /\ sresponse.duplicates_removed = 0

\* the search calls and delays of the run, in order
Timeline == SelectSeq(strace, LAMBDA e : e.op \in {"search", "sleep"})

IsInnerSleep(e) == e.op = "sleep" /\ "between" \notin DOMAIN e
IsBetweenSleep(e) == e.op = "sleep" /\ "between" \in DOMAIN e

\* C18: with max_pages >= 1, search calls and delays alternate, beginning and
\* ending with a search call; a delay of scrape_keyword is followed by a
\* search call for the same keyword, a delay between keywords by the next
\* keyword.
C18_SearchesAndDelaysAlternate ==
    max_pages >= 1 =>
       /\ \A j \in 1..Len(Timeline) :
            Timeline[j].op = (IF j % 2 = 1 THEN "search" ELSE "sleep")
       /\ (MultipleReturned /\ Timeline # <<>>) =>
             Timeline[Len(Timeline)].op = "search"
       /\ \A j \in 1..Len(strace) :
            /\ IsInnerSleep(strace[j]) =>
                 /\ strace[j - 1].op = "search"
                 /\ IF j = Len(strace)
                    THEN spc = "loop" /\ page < max_pages
                    ELSE /\ strace[j + 1].op = "search"
                         /\ strace[j + 1].params.q = strace[j - 1].params.q
            /\ IsBetweenSleep(strace[j]) =>
                 /\ strace[j - 1].op = "search"
                 /\ IF j = Len(strace)
                    THEN mpc = "multi" /\ ki <= Len(keywords)
                    ELSE strace[j + 1].op = "begin"

\* two pages of the first keyword and one of the second: three search calls,
\* one delay of each kind
C18_Witness ==
    /\ mpc = "multi_done"
    /\ Len(keywords) = 2
    /\ Len(Timeline) = 5
    /\ IsInnerSleep(Timeline[2])
    /\ IsBetweenSleep(Timeline[4])
    /\ Timeline[5].op = "search"

\* C19: the first search call of a scrape_keyword call has no cursor; every
\* later one has the cursor of the response before it, for the same keyword;
\* a page with actors and without cursor ends the pagination with its
\* accounts kept.
C19_CursorCarriedForward ==
    \A j \in 1..Len(strace) :
       strace[j].op = "search" =>
          /\ j > 1
          /\ strace[j].params.limit = 100
          /\ IF strace[j - 1].op = "begin"
             THEN /\ "cursor" \notin DOMAIN strace[j].params
                  /\ strace[j].params.q = strace[j - 1].keyword
             ELSE /\ j > 2
                  /\ strace[j - 1].op = "sleep"
                  /\ strace[j - 2].op = "search"
                  /\ ~strace[j - 2].outcome.raises
                  /\ strace[j - 2].outcome.value.cursor # <<>>
                  /\ "cursor" \in DOMAIN strace[j].params
                  /\ strace[j].params.cursor = strace[j - 2].outcome.value.cursor
                  /\ strace[j].params.q = strace[j - 2].params.q
          /\ (/\ j = Len(strace)
              /\ ~strace[j].outcome.raises
              /\ strace[j].outcome.value.actors # <<>>
              /\ strace[j].outcome.value.cursor = <<>>) =>
                /\ spc \in {"after", "done"}
                /\ Len(all_accounts) >= Len(strace[j].outcome.value.actors)
                /\ SubSeq(all_accounts,
                          Len(all_accounts) - Len(strace[j].outcome.value.actors) + 1,
                          Len(all_accounts))
                     = AccountsBetween(strace, j, j)

\* the first keyword ended at the page cap with a cursor in hand; the second
\* keyword started without cursor
C19_Witness ==
    /\ mpc = "multi_done"
    /\ Len(keywords) = 2
    /\ max_pages = 2
    /\ Len(SearchCalls(strace)) = 3
    /\ \A j \in 1..3 : ~SearchCalls(strace)[j].outcome.raises
    /\ "cursor" \in DOMAIN SearchCalls(strace)[2].params
    /\ SearchCalls(strace)[2].params.cursor = <<2>>
    /\ SearchCalls(strace)[2].outcome.value.cursor = <<3>>
    /\ "cursor" \notin DOMAIN SearchCalls(strace)[3].params
    /\ SearchCalls(strace)[3].outcome.value.cursor = <<>>
    /\ Len(per_kw[2]) = 3

-----------------------------------------------------------------------------
(* Properties of one scraper instance, checked under SpecInstance *)

\* a step in which deduplicate is called and returns
IsDeduplicateStep == mpc = "ready" /\ mpc' = "ready" /\ ncalls' = ncalls + 1

NoRepeat(seq) == \A k, j \in 1..Len(seq) : k # j => seq[k] # seq[j]

\* C20: over the calls made on one instance, the seen-set changes only in a
\* deduplicate call and only by growing; every identifier supplied in
\* seen_dids or returned by deduplicate is in the seen-set from then on, and
\* no identifier is returned by deduplicate twice.
C20_SeenSetOnlyGrows ==
    /\ [](/\ d_supplied \subseteq seen_dids
          /\ Range(d_returned) \subseteq seen_dids
          /\ NoRepeat(d_returned))
    /\ [][seen_dids' # seen_dids =>
             (IsDeduplicateStep /\ seen_dids \subseteq seen_dids')]_vars

\* identifiers were supplied and others returned, and a later call returned
\* scraped accounts whose identifiers are in the seen-set
C20_Witness ==
    /\ mpc = "ready"
    /\ ncalls = 3
    /\ d_supplied # {}
    /\ Len(d_returned) = 2
    /\ seen_dids = d_supplied \cup Range(d_returned)
    /\ d_accounts # <<>>
    /\ "handle" \in DOMAIN d_accounts[1]
    /\ \A k \in 1..Len(d_accounts) : d_accounts[k].did \in seen_dids

====
